---- MODULE Spec2Model ----
(***************************************************************************)
(* A model of src/vulkan/util/gen_enum_to_str.py: the symbol factories     *)
(* (NamedFactory), the value resolver (VkEnum.add_value and                *)
(* VkEnum.add_value_from_xml) and the model assembler (parse_xml, main).   *)
(*                                                                         *)
(* Python objects are records.  A dict is a function whose DOMAIN is its   *)
(* key set.  An XML element's attrib dict is a record whose fields are the *)
(* attributes that are present; numeric attributes are sequences of        *)
(* one-character strings, so that int() is modelled as a parser.  Object   *)
(* references are positions in a heap (a sequence); the reference to no    *)
(* object, None, is 0.                                                     *)
(***************************************************************************)
EXTENDS Integers, Sequences, FiniteSets, TLC

VARIABLES
    enum_registry,  \* enum_factory.registry: enum-type name -> reference into enums
    enums,          \* the VkEnum objects ever constructed, in construction order
    ext_registry,   \* ext_factory.registry: extension name -> reference into extensions
    extensions,     \* the VkExtension objects ever constructed, in construction order
    raised,         \* the uncaught exception that ended the run, or NoException
    files,          \* main: the number of files parse_xml has been called on
    todo,           \* parse_xml: what is left of the three loops, in execution order
    enum,           \* parse_xml: the local variable enum (a reference, or None)
    extension,      \* parse_xml: the local variable extension (a reference, or None)
    emitted,        \* main: TRUE once the templates have been rendered
    last,           \* history: the call made by the last step and its outcome
    declared,       \* history: per VkEnum reference, the distinct (name, value) pairs
                    \*   declared for it, in first-declaration order
    latest,         \* history: per VkEnum reference, name -> its last declaration: the value,
                    \*   and the name it was an alias of ("" when it was no alias)
    baseSeen,       \* history: names of the type="enum" blocks of the documents loaded so far
    firstNumber,    \* history: extension name -> number given at its first ext_factory call
    firstRef,       \* history: per factory, name -> the reference its first call returned
    supportedSeen,  \* history: extension name -> number text of the first supported="vulkan"
                    \*   block of that name in the documents loaded so far
    ignoredSeen,    \* history: TRUE once a loaded document held an unsupported extension block
    outOfOrder,     \* history: in the current document a feature or extension element
                    \*   precedes a type="enum" block
    passes,         \* history: the passes of the items processed so far in the current file
    calls           \* the number of calls the resolver-level specification has made

vars == <<enum_registry, enums, ext_registry, extensions, raised, files, todo, enum,
          extension, emitted, last, declared, latest, baseSeen, firstNumber, firstRef,
          supportedSeen, ignoredSeen, outOfOrder, passes, calls>>

(***************************************************************************)
(* Bounds of the model.                                                    *)
(***************************************************************************)
MaxCalls == 4       \* calls made by the resolver-level specification
MaxFiles == 2       \* --xml files given to main
MaxElems == 2       \* top-level elements of one document

None == 0
NoException == "none"
EmptyDict == [k \in {} |-> 0]

(***************************************************************************)
(* int(): Python's string to integer conversion, for the texts made of a   *)
(* sign, a base prefix and digits (no surrounding blanks, no underscores). *)
(***************************************************************************)
LowerDigits == <<"0","1","2","3","4","5","6","7","8","9","a","b","c","d","e","f">>
UpperDigits == <<"0","1","2","3","4","5","6","7","8","9","A","B","C","D","E","F">>

IsDigit(c, base) == \E i \in 1..base : LowerDigits[i] = c \/ UpperDigits[i] = c

DigitValue(c) == (CHOOSE i \in 1..16 : LowerDigits[i] = c \/ UpperDigits[i] = c) - 1

RECURSIVE DigitsValue(_, _)
DigitsValue(ds, base) ==
    IF ds = <<>> THEN 0
    ELSE DigitsValue(SubSeq(ds, 1, Len(ds) - 1), base) * base + DigitValue(ds[Len(ds)])

\* int(text, base) for base 0 (the literal's own prefix decides) and base 10.
\* The result is [ok |-> FALSE] for a ValueError.
int(text, base) ==
    LET signed == text # <<>> /\ text[1] \in {"+", "-"}
        body   == IF signed THEN Tail(text) ELSE text
        prefix(letters) == Len(body) >= 2 /\ body[1] = "0" /\ body[2] \in letters
        radix  == IF base # 0 THEN base
                  ELSE IF prefix({"x", "X"}) THEN 16
                  ELSE IF prefix({"o", "O"}) THEN 8
                  ELSE IF prefix({"b", "B"}) THEN 2
                  ELSE 10
        digits == IF base = 0 /\ radix # 10 THEN SubSeq(body, 3, Len(body)) ELSE body
        \* base 0: a nonzero decimal literal has no leading zero
        plain  == \/ ~(base = 0 /\ radix = 10)
                  \/ digits[1] # "0"
                  \/ \A i \in 1..Len(digits) : digits[i] = "0"
        ok     == /\ digits # <<>>
                  /\ \A i \in 1..Len(digits) : IsDigit(digits[i], radix)
                  /\ plain
        n      == DigitsValue(digits, radix)
    IN  IF ~ok THEN [ok |-> FALSE, value |-> 0]
        ELSE [ok |-> TRUE, value |-> IF signed /\ text[1] = "-" THEN -n ELSE n]

(***************************************************************************)
(* VkExtension and VkEnum.                                                 *)
(***************************************************************************)
\* VkExtension(name, number=None); kw holds the keyword arguments given.  An
\* attribute that is None is a field the record does not have.
VkExtension(name, kw) ==
    IF "number" \in DOMAIN kw THEN [name |-> name, number |-> kw.number]
    ELSE [name |-> name]

VkEnum(name) == [name |-> name, values |-> EmptyDict, name_to_value |-> EmptyDict]

\* d[k] = v on a dict
DictSet(d, k, v) == [x \in DOMAIN d \cup {k} |-> IF x = k THEN v ELSE d[x]]

\* The outcome of a method: the exception it raised, or the object as it left it.
Raise(exception, self) == [exception |-> exception, self |-> self]
Return(self) == [exception |-> NoException, self |-> self]

\* A mutant of Resolve: the extension number taken as 0-based.
ResolveOffByOne(kw) ==
    IF "value" \in DOMAIN kw THEN kw.value
    ELSE LET v == 1000000000 + kw.extnum * 1000 + kw.offset
         IN  IF "error" \in DOMAIN kw /\ kw.error THEN -v ELSE v

\* add_value's computation of value from its keyword arguments; kw holds the
\* arguments that are not None.
Resolve(kw) ==
    IF "value" \in DOMAIN kw THEN kw.value
    ELSE LET v == 1000000000 + (kw.extnum - 1) * 1000 + kw.offset
         IN  IF "error" \in DOMAIN kw /\ kw.error THEN -v ELSE v

\* Mutants of add_value: the canonical name is never replaced; a name keeps its
\* first value; a re-declaration also moves the names that shared the old value.
add_value_KeepFirst(self, name, kw) ==
    IF "value" \notin DOMAIN kw /\ "extnum" \notin DOMAIN kw
    THEN Raise("AssertionError", self)
    ELSE IF "value" \notin DOMAIN kw /\ "offset" \notin DOMAIN kw
    THEN Raise("TypeError", self)
    ELSE LET value == Resolve(kw)
         IN  Return([self EXCEPT
                 !.name_to_value = DictSet(self.name_to_value, name, value),
                 !.values = IF value \notin DOMAIN self.values
                            THEN DictSet(self.values, value, name)
                            ELSE self.values])

add_value_FirstWriter(self, name, kw) ==
    IF "value" \notin DOMAIN kw /\ "extnum" \notin DOMAIN kw
    THEN Raise("AssertionError", self)
    ELSE IF "value" \notin DOMAIN kw /\ "offset" \notin DOMAIN kw
    THEN Raise("TypeError", self)
    ELSE LET value == Resolve(kw)
         IN  Return([self EXCEPT
                 !.name_to_value = IF name \in DOMAIN self.name_to_value
                                   THEN self.name_to_value
                                   ELSE DictSet(self.name_to_value, name, value),
                 !.values = IF value \notin DOMAIN self.values
                            THEN DictSet(self.values, value, name)
                            ELSE IF Len(self.values[value]) > Len(name)
                            THEN DictSet(self.values, value, name)
                            ELSE self.values])

add_value_Propagate(self, name, kw) ==
    IF "value" \notin DOMAIN kw /\ "extnum" \notin DOMAIN kw
    THEN Raise("AssertionError", self)
    ELSE IF "value" \notin DOMAIN kw /\ "offset" \notin DOMAIN kw
    THEN Raise("TypeError", self)
    ELSE LET value == Resolve(kw)
             old   == self.name_to_value
             new   == [x \in DOMAIN old |->
                          IF name \in DOMAIN old /\ old[x] = old[name] THEN value ELSE old[x]]
         IN  Return([self EXCEPT
                 !.name_to_value = DictSet(new, name, value),
                 !.values = IF value \notin DOMAIN self.values
                            THEN DictSet(self.values, value, name)
                            ELSE IF Len(self.values[value]) > Len(name)
                            THEN DictSet(self.values, value, name)
                            ELSE self.values])

\* VkEnum.add_value(self, name, value=None, extnum=None, offset=None, error=False)
add_value(self, name, kw) ==
    IF "value" \notin DOMAIN kw /\ "extnum" \notin DOMAIN kw
    THEN Raise("AssertionError", self)
    ELSE IF "value" \notin DOMAIN kw /\ "offset" \notin DOMAIN kw
    THEN Raise("TypeError", self)      \* int + None
    ELSE LET value == Resolve(kw)
         IN  Return([self EXCEPT
                 !.name_to_value = DictSet(self.name_to_value, name, value),
                 !.values = IF value \notin DOMAIN self.values
                            THEN DictSet(self.values, value, name)
                            ELSE IF Len(self.values[value]) > Len(name)
                            THEN DictSet(self.values, value, name)
                            ELSE self.values])

\* The keyword arguments add_value_from_xml passes in its else branch, for an
\* extension number that is an integer.
OffsetArgs(extnum, offset, error) ==
    [extnum |-> extnum, offset |-> offset, error |-> error]

\* The same for extension.number = None: extnum is passed as None.
OffsetArgsNoExtnum(offset, error) == [offset |-> offset, error |-> error]

\* A mutant of add_value_from_xml: an alias of an undeclared name resolves to 0.
add_value_from_xml_DefaultAlias(self, attrib, ext) ==
    IF "value" \in DOMAIN attrib THEN
        IF "name" \notin DOMAIN attrib THEN Raise("KeyError", self)
        ELSE LET v == int(attrib.value, 0)
             IN  IF ~v.ok THEN Raise("ValueError", self)
                 ELSE add_value(self, attrib.name, [value |-> v.value])
    ELSE IF "alias" \in DOMAIN attrib THEN
        IF "name" \notin DOMAIN attrib THEN Raise("KeyError", self)
        ELSE add_value(self, attrib.name,
                       [value |-> IF attrib.alias \in DOMAIN self.name_to_value
                                  THEN self.name_to_value[attrib.alias] ELSE 0])
    ELSE
        LET error == "dir" \in DOMAIN attrib /\ attrib.dir = "-"
            n     == IF "extnumber" \in DOMAIN attrib THEN int(attrib.extnumber, 10)
                     ELSE [ok |-> TRUE, value |-> IF "number" \in DOMAIN ext
                                                  THEN ext.number ELSE 0]
            given == "extnumber" \in DOMAIN attrib \/ "number" \in DOMAIN ext
            o     == IF "offset" \in DOMAIN attrib THEN int(attrib.offset, 10)
                     ELSE [ok |-> FALSE, value |-> 0]
        IN  IF "extnumber" \notin DOMAIN attrib /\ "name" \notin DOMAIN ext
            THEN Raise("AttributeError", self)
            ELSE IF ~n.ok THEN Raise("ValueError", self)
            ELSE IF "name" \notin DOMAIN attrib \/ "offset" \notin DOMAIN attrib
            THEN Raise("KeyError", self)
            ELSE IF ~o.ok THEN Raise("ValueError", self)
            ELSE add_value(self, attrib.name,
                           IF given THEN OffsetArgs(n.value, o.value, error)
                           ELSE OffsetArgsNoExtnum(o.value, error))

\* A mutant of add_value_from_xml: a declaration with neither value nor alias
\* nor offset is taken as offset 0.
add_value_from_xml_DefaultOffset(self, attrib, ext) ==
    IF "value" \in DOMAIN attrib THEN
        IF "name" \notin DOMAIN attrib THEN Raise("KeyError", self)
        ELSE LET v == int(attrib.value, 0)
             IN  IF ~v.ok THEN Raise("ValueError", self)
                 ELSE add_value(self, attrib.name, [value |-> v.value])
    ELSE IF "alias" \in DOMAIN attrib THEN
        IF "name" \notin DOMAIN attrib THEN Raise("KeyError", self)
        ELSE IF attrib.alias \notin DOMAIN self.name_to_value THEN Raise("KeyError", self)
        ELSE add_value(self, attrib.name, [value |-> self.name_to_value[attrib.alias]])
    ELSE
        LET error == "dir" \in DOMAIN attrib /\ attrib.dir = "-"
            n     == IF "extnumber" \in DOMAIN attrib THEN int(attrib.extnumber, 10)
                     ELSE [ok |-> TRUE, value |-> IF "number" \in DOMAIN ext
                                                  THEN ext.number ELSE 0]
            given == "extnumber" \in DOMAIN attrib \/ "number" \in DOMAIN ext
            o     == IF "offset" \in DOMAIN attrib THEN int(attrib.offset, 10)
                     ELSE [ok |-> TRUE, value |-> 0]
        IN  IF "extnumber" \notin DOMAIN attrib /\ "name" \notin DOMAIN ext
            THEN Raise("AttributeError", self)
            ELSE IF ~n.ok THEN Raise("ValueError", self)
            ELSE IF "name" \notin DOMAIN attrib
            THEN Raise("KeyError", self)
            ELSE IF ~o.ok THEN Raise("ValueError", self)
            ELSE add_value(self, attrib.name,
                           IF given THEN OffsetArgs(n.value, o.value, error)
                           ELSE OffsetArgsNoExtnum(o.value, error))

\* VkEnum.add_value_from_xml(self, elem, extension=None).  attrib is elem.attrib;
\* ext is the VkExtension object, or NoObject for None (no attribute at all).
add_value_from_xml(self, attrib, ext) ==
    IF "value" \in DOMAIN attrib THEN
        IF "name" \notin DOMAIN attrib THEN Raise("KeyError", self)
        ELSE LET v == int(attrib.value, 0)
             IN  IF ~v.ok THEN Raise("ValueError", self)
                 ELSE add_value(self, attrib.name, [value |-> v.value])
    ELSE IF "alias" \in DOMAIN attrib THEN
        IF "name" \notin DOMAIN attrib THEN Raise("KeyError", self)
        ELSE IF attrib.alias \notin DOMAIN self.name_to_value THEN Raise("KeyError", self)
        ELSE add_value(self, attrib.name, [value |-> self.name_to_value[attrib.alias]])
    ELSE
        LET error == "dir" \in DOMAIN attrib /\ attrib.dir = "-"
            n     == IF "extnumber" \in DOMAIN attrib THEN int(attrib.extnumber, 10)
                     ELSE [ok |-> TRUE, value |-> IF "number" \in DOMAIN ext
                                                  THEN ext.number ELSE 0]
            given == "extnumber" \in DOMAIN attrib \/ "number" \in DOMAIN ext
            o     == IF "offset" \in DOMAIN attrib THEN int(attrib.offset, 10)
                     ELSE [ok |-> FALSE, value |-> 0]
        IN  IF "extnumber" \notin DOMAIN attrib /\ "name" \notin DOMAIN ext
            THEN Raise("AttributeError", self)
            ELSE IF ~n.ok THEN Raise("ValueError", self)
            ELSE IF "name" \notin DOMAIN attrib \/ "offset" \notin DOMAIN attrib
            THEN Raise("KeyError", self)
            ELSE IF ~o.ok THEN Raise("ValueError", self)
            ELSE add_value(self, attrib.name,
                           IF given THEN OffsetArgs(n.value, o.value, error)
                           ELSE OffsetArgsNoExtnum(o.value, error))

(***************************************************************************)
(* NamedFactory.  A factory is its registry and the heap of the objects    *)
(* its type has constructed.                                               *)
(***************************************************************************)
\* A mutant of NamedFactory.__call__: a new object on every call.
NamedFactory_call_AlwaysNew(registry, heap, name, new) ==
    [registry |-> DictSet(registry, name, Len(heap) + 1),
     heap     |-> Append(heap, new),
     n        |-> Len(heap) + 1]

\* NamedFactory.__call__(self, name, **kwargs); new is self.type(name, **kwargs),
\* which the code constructs only after the KeyError.
NamedFactory_call(registry, heap, name, new) ==
    IF name \in DOMAIN registry
    THEN [registry |-> registry, heap |-> heap, n |-> registry[name]]
    ELSE [registry |-> DictSet(registry, name, Len(heap) + 1),
          heap     |-> Append(heap, new),
          n        |-> Len(heap) + 1]

\* NamedFactory.get(self, name): dict.get, None when the key is absent.
NamedFactory_get(registry, name) ==
    IF name \in DOMAIN registry THEN registry[name] ELSE None

\* The object a reference denotes; None denotes an object with no attributes.
NoObject == EmptyDict
Deref(heap, ref) == IF ref = None THEN NoObject ELSE heap[ref]
(***************************************************************************)
(* History of the declarations made, kept beside the tables: the value a   *)
(* declaration stands for, as the registry format defines it.              *)
(***************************************************************************)
OffsetValue(E, O, error) ==
    IF error THEN -(1000000000 + (E - 1) * 1000 + O) ELSE 1000000000 + (E - 1) * 1000 + O

\* The extension number of an offset declaration: its own extnumber, else the
\* number of the extension object it is resolved under.
ExtNumberOf(attrib, ext) ==
    IF "extnumber" \in DOMAIN attrib THEN int(attrib.extnumber, 10).value
    ELSE extensions[ext].number

IsLiteral(attrib) == "value" \in DOMAIN attrib
IsAlias(attrib)   == "value" \notin DOMAIN attrib /\ "alias" \in DOMAIN attrib
IsOffset(attrib)  == /\ "value" \notin DOMAIN attrib /\ "alias" \notin DOMAIN attrib
                     /\ "offset" \in DOMAIN attrib

\* The declaration stands for a value: a literal, an alias of a declared name,
\* or an offset with an extension number.
WellFormed(ref, attrib, ext) ==
    \/ IsLiteral(attrib)
    \/ IsAlias(attrib) /\ attrib.alias \in DOMAIN latest[ref]
    \/ /\ IsOffset(attrib)
       /\ \/ "extnumber" \in DOMAIN attrib
          \/ ext # None /\ "number" \in DOMAIN extensions[ext]

DeclaredValue(ref, attrib, ext) ==
    IF IsLiteral(attrib) THEN int(attrib.value, 0).value
    ELSE IF IsAlias(attrib) THEN latest[ref][attrib.alias].value
    ELSE OffsetValue(ExtNumberOf(attrib, ext), int(attrib.offset, 10).value,
                     "dir" \in DOMAIN attrib /\ attrib.dir = "-")

DeclaredKw(kw) ==
    IF "value" \in DOMAIN kw THEN kw.value
    ELSE OffsetValue(kw.extnum, kw.offset, kw.error)

InSeq(x, seq) == \E i \in 1..Len(seq) : seq[i] = x

\* The history after name has been declared with value v for the VkEnum at ref.
Record(ref, name, v, alias) ==
    /\ declared' = [declared EXCEPT ![ref] =
                       IF InSeq(<<name, v>>, @) THEN @ ELSE Append(@, <<name, v>>)]
    /\ latest' = [latest EXCEPT ![ref] = DictSet(@, name, [value |-> v, alias |-> alias])]

NoCall == [op |-> "none", factory |-> "none", ref |-> None, name |-> "", attrib |-> EmptyDict,
           ext |-> None, exception |-> NoException]

(***************************************************************************)
(* Steps shared by the two specifications.                                 *)
(***************************************************************************)
\* enum_factory(name)
CallEnumFactory(name) ==
    LET r == NamedFactory_call(enum_registry, enums, name, VkEnum(name))
        k == Len(r.heap) - Len(enums)
    IN  /\ enum_registry' = r.registry
        /\ enums' = r.heap
        /\ declared' = declared \o [i \in 1..k |-> <<>>]
        /\ latest' = latest \o [i \in 1..k |-> EmptyDict]
        /\ firstRef' = IF name \in DOMAIN firstRef.enum THEN firstRef
                       ELSE [firstRef EXCEPT !.enum = DictSet(@, name, r.n)]
        /\ last' = [NoCall EXCEPT !.op = "call", !.factory = "enum", !.ref = r.n, !.name = name]

\* ext_factory(name, number=number)
CallExtFactory(name, number) ==
    LET r == NamedFactory_call(ext_registry, extensions, name, VkExtension(name, [number |-> number]))
    IN  /\ ext_registry' = r.registry
        /\ extensions' = r.heap
        /\ firstNumber' = IF name \in DOMAIN firstNumber THEN firstNumber
                          ELSE DictSet(firstNumber, name, number)
        /\ firstRef' = IF name \in DOMAIN firstRef.ext THEN firstRef
                       ELSE [firstRef EXCEPT !.ext = DictSet(@, name, r.n)]
        /\ last' = [NoCall EXCEPT !.op = "call", !.factory = "ext", !.ref = r.n, !.name = name,
                                  !.attrib = [number |-> number]]

\* enum.add_value_from_xml(elem, extension) on the VkEnum at ref
CallAddValueFromXml(ref, attrib, ext) ==
    LET r == add_value_from_xml(enums[ref], attrib, Deref(extensions, ext))
    IN  /\ enums' = [enums EXCEPT ![ref] = r.self]
        /\ raised' = r.exception
        /\ IF r.exception = NoException /\ WellFormed(ref, attrib, ext)
           THEN Record(ref, attrib.name, DeclaredValue(ref, attrib, ext),
                       IF IsAlias(attrib) THEN attrib.alias ELSE "")
           ELSE UNCHANGED <<declared, latest>>
        /\ last' = [NoCall EXCEPT !.op = "add_value_from_xml", !.ref = ref, !.attrib = attrib,
                                  !.name = IF "name" \in DOMAIN attrib THEN attrib.name ELSE "",
                                  !.ext = ext, !.exception = r.exception]

(***************************************************************************)
(* The resolver-level specification: any sequence of at most MaxCalls      *)
(* calls of the factories and of the VkEnum methods, ended by the first    *)
(* exception.                                                              *)
(***************************************************************************)
EnumNames == {"VkResult", "VkFormat"}
ExtNames == {"VK_KHR_a", "VK_EXT_b"}
ExtNumbers == {0, 3}
Names == {"VK_FOO", "VK_BAR", "VK_FOO_EXT"}
ValueTexts == {<<"0">>, <<"0", "x", "1">>}
OffsetTexts == {<<"0">>}
ExtnumberTexts == {<<"2">>}

Attribs ==
    [name : Names, value : ValueTexts]
    \cup [name : Names, alias : {"VK_FOO", "VK_BAR"}]
    \cup [name : {"VK_FOO_EXT"}, offset : OffsetTexts]
    \cup [name : {"VK_FOO_EXT"}, offset : OffsetTexts, dir : {"-"}]
    \cup [name : {"VK_FOO_EXT"}, offset : OffsetTexts, extnumber : ExtnumberTexts]
    \cup [name : {"VK_FOO_EXT"}, offset : OffsetTexts, extnumber : ExtnumberTexts, dir : {"-"}]
    \cup [name : {"VK_BAR"}]
    \cup [name : {"VK_BAR"}, value : {<<"0">>}, alias : {"VK_NONE"}]
    \cup [name : {"VK_BAR"}, alias : {"VK_FOO"}, offset : OffsetTexts, extnumber : ExtnumberTexts]

Kwargs ==
    [value : {1}]
    \cup [extnum : {2}, offset : {1}, error : {TRUE}]
    \cup [value : {1}, extnum : {2}, offset : {1}, error : {FALSE}]
    \cup [error : {FALSE}]

pipeline == <<files, todo, enum, extension, emitted, baseSeen, supportedSeen, ignoredSeen,
              outOfOrder, passes>>

Init ==
    /\ enum_registry = EmptyDict
    /\ enums = <<>>
    /\ ext_registry = EmptyDict
    /\ extensions = <<>>
    /\ raised = NoException
    /\ files = 0
    /\ todo = <<>>
    /\ enum = None
    /\ extension = None
    /\ emitted = FALSE
    /\ last = NoCall
    /\ declared = <<>>
    /\ latest = <<>>
    /\ baseSeen = {}
    /\ firstNumber = EmptyDict
    /\ firstRef = [enum |-> EmptyDict, ext |-> EmptyDict]
    /\ supportedSeen = EmptyDict
    /\ ignoredSeen = FALSE
    /\ outOfOrder = FALSE
    /\ passes = <<>>
    /\ calls = 0

Called == raised = NoException /\ calls < MaxCalls /\ calls' = calls + 1

EnumFactoryCall ==
    \E name \in EnumNames :
        /\ Called
        /\ CallEnumFactory(name)
        /\ UNCHANGED <<ext_registry, extensions, raised, firstNumber, pipeline>>

ExtFactoryCall ==
    \E name \in ExtNames, number \in ExtNumbers :
        /\ Called
        /\ CallExtFactory(name, number)
        /\ UNCHANGED <<enum_registry, enums, raised, declared, latest, pipeline>>

EnumFactoryGet ==
    \E name \in EnumNames :
        /\ Called
        /\ last' = [NoCall EXCEPT !.op = "get", !.factory = "enum", !.name = name,
                                  !.ref = NamedFactory_get(enum_registry, name)]
        /\ UNCHANGED <<enum_registry, enums, ext_registry, extensions, raised, declared,
                       latest, firstNumber, firstRef, pipeline>>

ExtFactoryGet ==
    \E name \in ExtNames :
        /\ Called
        /\ last' = [NoCall EXCEPT !.op = "get", !.factory = "ext", !.name = name,
                                  !.ref = NamedFactory_get(ext_registry, name)]
        /\ UNCHANGED <<enum_registry, enums, ext_registry, extensions, raised, declared,
                       latest, firstNumber, firstRef, pipeline>>

AddValueFromXml ==
    \E ref \in 1..Len(enums), attrib \in Attribs, ext \in 0..Len(extensions) :
        /\ Called
        /\ CallAddValueFromXml(ref, attrib, ext)
        /\ UNCHANGED <<enum_registry, ext_registry, extensions, firstNumber, firstRef, pipeline>>

AddValue ==
    \E ref \in 1..Len(enums), name \in {"VK_FOO"}, kw \in Kwargs :
        LET r == add_value(enums[ref], name, kw)
        IN  /\ Called
            /\ enums' = [enums EXCEPT ![ref] = r.self]
            /\ raised' = r.exception
            /\ IF r.exception = NoException
               THEN Record(ref, name, DeclaredKw(kw), "")
               ELSE UNCHANGED <<declared, latest>>
            /\ last' = [NoCall EXCEPT !.op = "add_value", !.ref = ref, !.name = name,
                                      !.attrib = kw, !.exception = r.exception]
            /\ UNCHANGED <<enum_registry, ext_registry, extensions, firstNumber, firstRef, pipeline>>

Next ==
    \/ EnumFactoryCall
    \/ ExtFactoryCall
    \/ EnumFactoryGet
    \/ ExtFactoryGet
    \/ AddValueFromXml
    \/ AddValue

Spec == Init /\ [][Next]_vars
(***************************************************************************)
(* The registry documents.  A document is the sequence of the elements the *)
(* three XPath queries of parse_xml can match below the root, in document  *)
(* order: an enums block with its enum children, a feature with the enum   *)
(* elements of its require children, an extension with the enum elements   *)
(* of its require children.                                                *)
(***************************************************************************)
Element(tag, attrib, children) == [tag |-> tag, attrib |-> attrib, children |-> children]

\* <enums name="VkResult" type="enum">: a literal, and an alias of it
BaseResult ==
    Element("enums", [name |-> "VkResult", type |-> "enum"],
            << [name |-> "VK_FOO", value |-> <<"0">>],
               [name |-> "VK_FOO_EXT", alias |-> "VK_FOO"] >>)

\* <enums name="VkFlags" type="bitmask">: no enum type
BitmaskFlags ==
    Element("enums", [name |-> "VkFlags", type |-> "bitmask"],
            << [name |-> "VK_BIT", value |-> <<"0", "x", "1">>] >>)

\* <feature>: an offset declaration with its own extnumber, a declaration that
\* extends the bitmask, an enum with no extends attribute
Feature ==
    Element("feature", [name |-> "VK_VERSION_1_1"],
            << [extends |-> "VkResult", name |-> "VK_BAR", extnumber |-> <<"2">>,
                offset |-> <<"0">>],
               [extends |-> "VkFlags", name |-> "VK_BIT2", value |-> <<"2">>],
               [name |-> "VK_API", value |-> <<"1">>] >>)

\* <feature>: an alias of a name that only Feature declares
FeatureAlias ==
    Element("feature", [name |-> "VK_VERSION_1_2"],
            << [extends |-> "VkResult", name |-> "VK_BAR_EXT", alias |-> "VK_BAR"] >>)

\* <extension name="VK_KHR_a" number="3" supported="vulkan">
ExtensionA ==
    Element("extension", [name |-> "VK_KHR_a", number |-> <<"3">>, supported |-> "vulkan"],
            << [extends |-> "VkResult", name |-> "VK_ERR", offset |-> <<"0">>, dir |-> "-"],
               [extends |-> "VkFormat", name |-> "VK_FMT", offset |-> <<"1">>] >>)

\* the same extension name again, with the number 0
ExtensionA0 ==
    Element("extension", [name |-> "VK_KHR_a", number |-> <<"0">>, supported |-> "vulkan"],
            << [extends |-> "VkResult", name |-> "VK_BAR", offset |-> <<"0">>] >>)

\* <extension supported="disabled">: an offset declaration and a declaration
\* with neither value nor alias nor offset
ExtensionDisabled ==
    Element("extension", [name |-> "VK_KHR_a", number |-> <<"9">>, supported |-> "disabled"],
            << [extends |-> "VkResult", name |-> "VK_OFF", offset |-> <<"0">>],
               [extends |-> "VkResult", name |-> "VK_OFF"] >>)

Elements == {BaseResult, BitmaskFlags, Feature, FeatureAlias, ExtensionA, ExtensionA0,
             ExtensionDisabled}

Documents == UNION {[1..n -> Elements] : n \in 0..MaxElems}

(***************************************************************************)
(* parse_xml.  The three loops are unrolled into the sequence of the steps *)
(* they take; todo holds the steps still to take.                          *)
(***************************************************************************)
HasExtends(attrib) == "extends" \in DOMAIN attrib

Step(pass, kind, attrib) == [pass |-> pass, kind |-> kind, attrib |-> attrib]

Steps(pass, kind, elems) == [i \in 1..Len(elems) |-> Step(pass, kind, elems[i])]

IsEnumBlock(e) ==
    e.tag = "enums" /\ "type" \in DOMAIN e.attrib /\ e.attrib.type = "enum"

IsSupported(e) ==
    e.tag = "extension" /\ "supported" \in DOMAIN e.attrib /\ e.attrib.supported = "vulkan"

\* for enum_type in xml.findall('./enums[@type="enum"]'): ... for value in
\* enum_type.findall('./enum')
RECURSIVE Pass1(_)
Pass1(doc) ==
    IF doc = <<>> THEN <<>>
    ELSE (IF IsEnumBlock(Head(doc))
          THEN <<Step(1, "enums", Head(doc).attrib)>>
               \o Steps(1, "enum", Head(doc).children)
          ELSE <<>>) \o Pass1(Tail(doc))

\* for value in xml.findall('./feature/require/enum[@extends]')
RECURSIVE Pass2(_)
Pass2(doc) ==
    IF doc = <<>> THEN <<>>
    ELSE (IF Head(doc).tag = "feature"
          THEN Steps(2, "feature_enum", SelectSeq(Head(doc).children, HasExtends))
          ELSE <<>>) \o Pass2(Tail(doc))

\* for ext_elem in xml.findall('./extensions/extension[@supported="vulkan"]'): ...
\* for value in ext_elem.findall('./require/enum[@extends]')
RECURSIVE Pass3(_)
Pass3(doc) ==
    IF doc = <<>> THEN <<>>
    ELSE (IF IsSupported(Head(doc))
          THEN <<Step(3, "extension", Head(doc).attrib)>>
               \o Steps(3, "extension_enum", SelectSeq(Head(doc).children, HasExtends))
          ELSE <<>>) \o Pass3(Tail(doc))

RECURSIVE Pass3_AnySupport(_)
Pass3_AnySupport(doc) ==
    IF doc = <<>> THEN <<>>
    ELSE (IF Head(doc).tag = "extension"
          THEN <<Step(3, "extension", Head(doc).attrib)>>
               \o Steps(3, "extension_enum", SelectSeq(Head(doc).children, HasExtends))
          ELSE <<>>) \o Pass3_AnySupport(Tail(doc))

\* Mutants of the body of parse_xml: the feature loop before the enums loop;
\* every extension block, whatever its supported attribute.
parse_xml_FeaturesFirst(doc) == Pass2(doc) \o Pass1(doc) \o Pass3(doc)

parse_xml_AnySupport(doc) == Pass1(doc) \o Pass2(doc) \o Pass3_AnySupport(doc)

\* The body of parse_xml on the parsed document.
parse_xml(doc) == Pass1(doc) \o Pass2(doc) \o Pass3(doc)

(***************************************************************************)
(* History of the documents loaded.                                        *)
(***************************************************************************)
BaseNames(doc) == {doc[i].attrib.name : i \in {j \in 1..Len(doc) : IsEnumBlock(doc[j])}}

RECURSIVE FirstSupported(_, _)
FirstSupported(seen, doc) ==
    IF doc = <<>> THEN seen
    ELSE FirstSupported(IF IsSupported(Head(doc)) /\ Head(doc).attrib.name \notin DOMAIN seen
                        THEN DictSet(seen, Head(doc).attrib.name, Head(doc).attrib.number)
                        ELSE seen,
                        Tail(doc))

OutOfOrder(doc) ==
    \E i, j \in 1..Len(doc) :
        i < j /\ doc[i].tag \in {"feature", "extension"} /\ IsEnumBlock(doc[j])

HasIgnored(doc) == \E i \in 1..Len(doc) : doc[i].tag = "extension" /\ ~IsSupported(doc[i])

(***************************************************************************)
(* The run of main: parse_xml on each file in turn, then the templates.    *)
(***************************************************************************)
resolver == <<enum_registry, enums, ext_registry, extensions, declared, latest,
              firstNumber, firstRef>>

Running == raised = NoException /\ ~emitted

At(kind) == Running /\ todo # <<>> /\ Head(todo).kind = kind

Advance ==
    /\ passes' = Append(passes, Head(todo).pass)
    /\ todo' = Tail(todo)
    /\ UNCHANGED <<files, emitted, baseSeen, supportedSeen, ignoredSeen, outOfOrder, calls>>

Skip(attrib) ==
    /\ last' = [NoCall EXCEPT !.op = "skip", !.attrib = attrib]
    /\ UNCHANGED <<resolver, raised>>

\* xml = et.parse(filename), for the next filename of args.xml_files
ParseXml ==
    \E doc \in Documents :
        /\ Running /\ todo = <<>> /\ files < MaxFiles
        /\ files' = files + 1
        /\ todo' = parse_xml(doc)
        /\ enum' = None
        /\ extension' = None
        /\ passes' = <<>>
        /\ baseSeen' = baseSeen \cup BaseNames(doc)
        /\ supportedSeen' = FirstSupported(supportedSeen, doc)
        /\ ignoredSeen' = (ignoredSeen \/ HasIgnored(doc))
        /\ outOfOrder' = OutOfOrder(doc)
        /\ last' = [NoCall EXCEPT !.op = "parse"]
        /\ UNCHANGED <<resolver, raised, emitted, calls>>

\* enum = enum_factory(enum_type.attrib['name'])
EnumsBlock ==
    /\ At("enums")
    /\ LET attrib == Head(todo).attrib
       IN  IF "name" \notin DOMAIN attrib
           THEN /\ raised' = "KeyError"
                /\ last' = [NoCall EXCEPT !.op = "call", !.factory = "enum",
                                          !.exception = "KeyError"]
                /\ UNCHANGED <<resolver, enum>>
           ELSE /\ CallEnumFactory(attrib.name)
                /\ enum' = enum_registry'[attrib.name]
                /\ UNCHANGED <<ext_registry, extensions, firstNumber, raised>>
    /\ Advance
    /\ UNCHANGED extension

\* enum.add_value_from_xml(value), in the enums loop
EnumValue ==
    /\ At("enum")
    /\ CallAddValueFromXml(enum, Head(todo).attrib, None)
    /\ Advance
    /\ UNCHANGED <<enum_registry, ext_registry, extensions, firstNumber, firstRef,
                   enum, extension>>

FeatureValue_Create ==
    /\ At("feature_enum")
    /\ LET attrib == Head(todo).attrib
       IN  /\ CallEnumFactory(attrib.extends)
           /\ enum' = enum_registry'[attrib.extends]
           /\ UNCHANGED <<ext_registry, extensions, firstNumber, raised>>
    /\ Advance
    /\ UNCHANGED extension

\* enum = enum_factory.get(value.attrib['extends']); if enum is not None:
\* enum.add_value_from_xml(value), in the feature loop
FeatureValue ==
    /\ At("feature_enum")
    /\ LET attrib == Head(todo).attrib
           found  == NamedFactory_get(enum_registry, attrib.extends)
       IN  /\ enum' = found
           /\ IF found # None
              THEN /\ CallAddValueFromXml(found, attrib, None)
                   /\ UNCHANGED <<enum_registry, ext_registry, extensions, firstNumber,
                                  firstRef>>
              ELSE Skip(attrib)
    /\ Advance
    /\ UNCHANGED extension

\* extension = ext_factory(ext_elem.attrib['name'], number=int(ext_elem.attrib['number']))
ExtensionBlock ==
    /\ At("extension")
    /\ LET attrib == Head(todo).attrib
           number == IF "number" \in DOMAIN attrib THEN int(attrib.number, 10)
                     ELSE [ok |-> FALSE, value |-> 0]
           exception == IF "name" \notin DOMAIN attrib \/ "number" \notin DOMAIN attrib
                        THEN "KeyError"
                        ELSE IF ~number.ok THEN "ValueError" ELSE NoException
       IN  IF exception # NoException
           THEN /\ raised' = exception
                /\ last' = [NoCall EXCEPT !.op = "call", !.factory = "ext",
                                          !.exception = exception]
                /\ UNCHANGED <<resolver, extension>>
           ELSE /\ CallExtFactory(attrib.name, number.value)
                /\ extension' = ext_registry'[attrib.name]
                /\ UNCHANGED <<enum_registry, enums, declared, latest, raised>>
    /\ Advance
    /\ UNCHANGED enum

\* enum = enum_factory.get(value.attrib['extends']); if enum is not None:
\* enum.add_value_from_xml(value, extension), in the extensions loop
ExtensionValue ==
    /\ At("extension_enum")
    /\ LET attrib == Head(todo).attrib
           found  == NamedFactory_get(enum_registry, attrib.extends)
       IN  /\ enum' = found
           /\ IF found # None
              THEN /\ CallAddValueFromXml(found, attrib, extension)
                   /\ UNCHANGED <<enum_registry, ext_registry, extensions, firstNumber,
                                  firstRef>>
              ELSE Skip(attrib)
    /\ Advance
    /\ UNCHANGED extension

\* After the last file: the sorted objects are rendered into the two files.
Emit ==
    /\ Running /\ todo = <<>> /\ files >= 1
    /\ emitted' = TRUE
    /\ last' = [NoCall EXCEPT !.op = "emit"]
    /\ UNCHANGED <<resolver, raised, files, todo, enum, extension, baseSeen, supportedSeen,
                   ignoredSeen, outOfOrder, passes, calls>>

NextMain ==
    \/ ParseXml
    \/ EnumsBlock
    \/ EnumValue
    \/ FeatureValue
    \/ ExtensionBlock
    \/ ExtensionValue
    \/ Emit

SpecMain == Init /\ [][NextMain]_vars
(***************************************************************************)
(* The claims.                                                             *)
(***************************************************************************)
Refs == 1..Len(enums)

DeclaredValues(ref) == {declared[ref][i][2] : i \in 1..Len(declared[ref])}

DeclaredNames(ref) == {declared[ref][i][1] : i \in 1..Len(declared[ref])}

\* Of the names declared with value v, the first declared among the shortest.
FirstShortest(ref, v) ==
    LET d    == declared[ref]
        with == {i \in 1..Len(d) : d[i][2] = v}
        best == CHOOSE i \in with :
                    \A j \in with : \/ Len(d[i][1]) < Len(d[j][1])
                                    \/ Len(d[i][1]) = Len(d[j][1]) /\ i <= j
    IN  d[best][1]

\* C1: after any sequence of declarations on a VkEnum, values has exactly the
\* integers some declaration resolved to as keys, and values[v] is the shortest of
\* the names declared with value v, the first declared among those of that length.
C1_CanonicalName ==
    \A ref \in Refs :
        /\ DOMAIN enums[ref].values = DeclaredValues(ref)
        /\ \A v \in DeclaredValues(ref) : enums[ref].values[v] = FirstShortest(ref, v)

\* VK_FOO_EXT, then VK_BAR, then VK_FOO were declared with value 0: the shorter
\* names displaced the longer one, and of the two shortest the first stays.
C1_Witness ==
    \E ref \in Refs :
        /\ declared[ref] = << <<"VK_FOO_EXT", 0>>, <<"VK_BAR", 0>>, <<"VK_FOO", 0>> >>
        /\ enums[ref].values[0] = "VK_BAR"

\* C2: the keys of name_to_value are exactly the names declared so far, each
\* mapped to the value of its most recent declaration; right after a literal
\* declaration, name_to_value[name] is the literal.
C2_LastWriterWins ==
    /\ \A ref \in Refs :
          /\ DOMAIN enums[ref].name_to_value = DeclaredNames(ref)
          /\ DOMAIN latest[ref] = DeclaredNames(ref)
          /\ \A n \in DeclaredNames(ref) :
                enums[ref].name_to_value[n] = latest[ref][n].value
    /\ (last.op = "add_value_from_xml" /\ last.exception = NoException
            /\ IsLiteral(last.attrib))
       => /\ last.attrib.value = <<"0">> =>
                enums[last.ref].name_to_value[last.name] = 0
          /\ last.attrib.value = <<"0", "x", "1">> =>
                enums[last.ref].name_to_value[last.name] = 1

\* VK_FOO was declared with 0 and then again with the literal 0x1.
C2_Witness ==
    /\ last.op = "add_value_from_xml" /\ last.exception = NoException
    /\ DOMAIN last.attrib = {"name", "value"}
    /\ last.attrib.value = <<"0", "x", "1">>
    /\ last.name = "VK_FOO"
    /\ InSeq(<<"VK_FOO", 0>>, declared[last.ref])
    /\ enums[last.ref].name_to_value["VK_FOO"] = 1

\* C3: an offset declaration with extension number E >= 1 (its own extnumber,
\* else the number of the extension it is resolved under) and offset O >= 0
\* resolves to 1000000000 + (E-1)*1000 + O, negated when dir is "-".
C3_OffsetValue ==
    (last.op = "add_value_from_xml" /\ last.exception = NoException /\ IsOffset(last.attrib))
    => LET E == IF "extnumber" \in DOMAIN last.attrib
                THEN int(last.attrib.extnumber, 10).value
                ELSE extensions[last.ext].number
           O == int(last.attrib.offset, 10).value
           v == 1000000000 + (E - 1) * 1000 + O
           value == IF "dir" \in DOMAIN last.attrib /\ last.attrib.dir = "-" THEN -v ELSE v
           self == enums[last.ref]
       IN  (E >= 1 /\ O >= 0)
           => /\ self.name_to_value[last.name] = value
              /\ value \in DOMAIN self.values

\* Extension number 3, offset 0, dir "-": -1000002000, named by the declaration.
C3_Witness ==
    /\ last.op = "add_value_from_xml" /\ last.exception = NoException
    /\ DOMAIN last.attrib = {"name", "offset", "dir"}
    /\ last.ext # None
    /\ extensions[last.ext].number = 3
    /\ enums[last.ref].name_to_value[last.name] = -1000002000
    /\ enums[last.ref].values[-1000002000] = last.name

\* C4: a resolved alias declaration gives its name the value its target has at
\* that moment, and a declaration changes name_to_value at no other name than
\* its own: re-declaring the target leaves the alias where it was.
C4_AliasSnapshot ==
    [][\A ref \in Refs :
          LET before == enums[ref].name_to_value
              after  == enums'[ref].name_to_value
              declaring == /\ last'.op \in {"add_value_from_xml", "add_value"}
                           /\ last'.ref = ref
                           /\ last'.exception = NoException
          IN  /\ (declaring /\ last'.op = "add_value_from_xml" /\ IsAlias(last'.attrib))
                 => after[last'.name] = before[last'.attrib.alias]
              /\ \A m \in DOMAIN before :
                    /\ m \in DOMAIN after
                    /\ after[m] # before[m] => (declaring /\ last'.name = m)
      ]_vars

\* VK_BAR was last declared as an alias of VK_FOO, which then had the value 0;
\* the last step re-declared VK_FOO with 1.
C4_Witness ==
    \E ref \in Refs :
        /\ "VK_BAR" \in DOMAIN latest[ref]
        /\ latest[ref]["VK_BAR"].alias = "VK_FOO"
        /\ last.ref = ref /\ last.name = "VK_FOO" /\ last.exception = NoException
        /\ last.op = "add_value_from_xml"
        /\ enums[ref].name_to_value["VK_FOO"] = 1
        /\ enums[ref].name_to_value["VK_BAR"] = 0

\* The number of the three forms a declaration supplies.
Supplied(attrib) ==
    Cardinality({"value", "alias", "offset"} \cap DOMAIN attrib)

\* C6, as stated: a declaration that supplies none or more than one of value,
\* alias and offset is a fatal error.
C6_ExactlyOne ==
    (last.op = "add_value_from_xml" /\ Supplied(last.attrib) # 1)
    => last.exception # NoException

\* C6, amended: a declaration that supplies none of the three is a fatal error
\* and nothing is resolved after it; one that supplies several is resolved as
\* the first of literal, alias, offset that it supplies.
C6_AtLeastOne ==
    [][/\ (last'.op = "add_value_from_xml" /\ last' # last)
          => LET a == last'.attrib
                 before == enums[last'.ref].name_to_value
                 after  == enums'[last'.ref].name_to_value
             IN  /\ Supplied(a) = 0 => (raised' # NoException /\ enums' = enums)
                 /\ (Supplied(a) >= 2 /\ "value" \in DOMAIN a)
                    => /\ raised' = NoException
                       /\ after[a.name] = int(a.value, 0).value
                 /\ (Supplied(a) >= 2 /\ "value" \notin DOMAIN a)
                    => IF a.alias \in DOMAIN before
                       THEN raised' = NoException /\ after[a.name] = before[a.alias]
                       ELSE raised' = "KeyError" /\ enums' = enums
       /\ (last'.op = "add_value" /\ last' # last)
          => LET kw == last'.attrib
             IN  /\ ("value" \notin DOMAIN kw /\ "extnum" \notin DOMAIN kw)
                    => (raised' = "AssertionError" /\ enums' = enums)
                 /\ ("value" \in DOMAIN kw /\ "extnum" \in DOMAIN kw)
                    => /\ raised' = NoException
                       /\ enums'[last'.ref].name_to_value[last'.name] = kw.value
       /\ raised # NoException => UNCHANGED vars
      ]_vars

\* A declaration with both a value and an alias of an undeclared name resolved
\* to the value.
C6_Witness ==
    /\ last.op = "add_value_from_xml"
    /\ DOMAIN last.attrib = {"name", "value", "alias"}
    /\ raised = NoException
    /\ enums[last.ref].name_to_value["VK_BAR"] = 0

\* A factory holds one object per name, the one its first call returned.
FactoryOK(registry, heap, first) ==
    /\ DOMAIN first = DOMAIN registry
    /\ Len(heap) = Cardinality(DOMAIN registry)
    /\ \A n \in DOMAIN registry :
          /\ registry[n] \in 1..Len(heap)
          /\ registry[n] = first[n]
          /\ heap[registry[n]].name = n

\* C7: each factory holds at most one object per name and constructs no other;
\* a call returns the object the first call with that name returned; get adds
\* no entry; an extension keeps the number of its first call.
C7_OneObjectPerName ==
    [][/\ FactoryOK(enum_registry', enums', firstRef'.enum)
       /\ FactoryOK(ext_registry', extensions', firstRef'.ext)
       /\ \A n \in DOMAIN ext_registry' :
             extensions'[ext_registry'[n]].number = firstNumber'[n]
       /\ \A n \in DOMAIN enum_registry : /\ n \in DOMAIN enum_registry'
                                          /\ enum_registry'[n] = enum_registry[n]
       /\ \A n \in DOMAIN ext_registry : /\ n \in DOMAIN ext_registry'
                                         /\ ext_registry'[n] = ext_registry[n]
       /\ (last'.op = "call" /\ last'.factory = "enum" /\ last'.exception = NoException)
          => last'.ref = firstRef'.enum[last'.name]
       /\ (last'.op = "call" /\ last'.factory = "ext" /\ last'.exception = NoException)
          => last'.ref = firstRef'.ext[last'.name]
       /\ last'.op = "get"
          => /\ enum_registry' = enum_registry /\ enums' = enums
             /\ ext_registry' = ext_registry /\ extensions' = extensions
             /\ last'.factory = "enum" =>
                   last'.ref = IF last'.name \in DOMAIN enum_registry
                               THEN enum_registry[last'.name] ELSE None
             /\ last'.factory = "ext" =>
                   last'.ref = IF last'.name \in DOMAIN ext_registry
                               THEN ext_registry[last'.name] ELSE None
      ]_vars

\* ext_factory was called with number 3 for a name first given number 0, and
\* returned the object with number 0.
C7_Witness ==
    /\ last.op = "call" /\ last.factory = "ext"
    /\ last.attrib.number = 3
    /\ extensions[last.ref].number = 0
    /\ Len(extensions) = 1
\* The step parse_xml is about to take resolves a declaration, or skips it.
AtValue ==
    /\ Running /\ todo # <<>>
    /\ Head(todo).kind \in {"enum", "feature_enum", "extension_enum"}

\* The VkEnum that step resolves against: the enum of the enclosing block, or
\* the registered enum its extends attribute names (None when there is none).
Target ==
    IF Head(todo).kind = "enum" THEN enum
    ELSE IF Head(todo).attrib.extends \in DOMAIN enum_registry
    THEN enum_registry[Head(todo).attrib.extends]
    ELSE None

\* C5: resolving an alias declaration whose alias name is not declared for its
\* enum type raises KeyError and adds nothing to any table; after an exception
\* no step is taken, and the templates are never rendered.
C5_UndeclaredAliasFatal ==
    [][/\ (AtValue /\ Target # None /\ IsAlias(Head(todo).attrib)
              /\ Head(todo).attrib.alias \notin DOMAIN enums[Target].name_to_value)
          => /\ raised' = "KeyError"
             /\ enums' = enums
             /\ enum_registry' = enum_registry
       /\ raised # NoException => UNCHANGED vars
       /\ raised' # NoException => ~emitted'
      ]_vars

\* An alias of a name its enum type never declared raised KeyError, with steps
\* of the file still to take; nothing was rendered.
C5_Witness ==
    /\ raised = "KeyError"
    /\ last.op = "add_value_from_xml" /\ IsAlias(last.attrib)
    /\ last.attrib.alias \notin DOMAIN enums[last.ref].name_to_value
    /\ todo # <<>>
    /\ ~emitted

\* C8: a feature or extension declaration whose extends target is not in the
\* enum registry is skipped: no VkEnum is created, no table changes, no
\* exception is raised, and parse_xml goes on with the next step.
C8_UnknownExtendsSkipped ==
    [][(/\ Running /\ todo # <<>>
        /\ Head(todo).kind \in {"feature_enum", "extension_enum"}
        /\ Head(todo).attrib.extends \notin DOMAIN enum_registry)
       => /\ enum_registry' = enum_registry
          /\ enums' = enums
          /\ raised' = NoException
          /\ last'.op = "skip"
          /\ todo' = Tail(todo)
      ]_vars

\* The declaration extending VkFormat was skipped while VkResult was registered
\* and held values.
C8_Witness ==
    /\ last.op = "skip"
    /\ last.attrib.extends = "VkFormat"
    /\ "VkResult" \in DOMAIN enum_registry
    /\ enums[enum_registry["VkResult"]].values # EmptyDict
    /\ raised = NoException

\* The names declared inside the unsupported extension blocks.
IgnoredNames ==
    UNION {{e.children[i].name : i \in 1..Len(e.children)} :
              e \in {x \in Elements : x.tag = "extension" /\ ~IsSupported(x)}}

\* C9: an extension block whose supported attribute is not "vulkan" has no
\* effect: every registered extension is one of a supported block and has the
\* number of the first supported block of its name, and no table holds a name
\* that only unsupported blocks declare; their declarations are never resolved.
C9_UnsupportedIgnored ==
    /\ DOMAIN ext_registry \subseteq DOMAIN supportedSeen
    /\ \A n \in DOMAIN ext_registry :
          LET number == int(supportedSeen[n], 10)
          IN  number.ok /\ extensions[ext_registry[n]].number = number.value
    /\ \A ref \in Refs :
          /\ DOMAIN enums[ref].name_to_value \cap IgnoredNames = {}
          /\ \A v \in DOMAIN enums[ref].values : enums[ref].values[v] \notin IgnoredNames
    /\ last.name \notin IgnoredNames

\* A run that loaded an unsupported block named VK_KHR_a with number 9, with
\* VkResult registered, ended with VK_KHR_a registered under another number.
C9_Witness ==
    /\ ignoredSeen /\ emitted
    /\ "VkResult" \in DOMAIN enum_registry
    /\ "VK_KHR_a" \in DOMAIN ext_registry
    /\ extensions[ext_registry["VK_KHR_a"]].number # 9

\* C10: within a file the steps of pass 1 come before those of pass 2, and
\* those before pass 3; a declaration that extends a type with a base block in
\* this document or an earlier one finds it registered and is never skipped.
C10_PassOrder ==
    /\ \A i \in 1..Len(passes) - 1 : passes[i] <= passes[i + 1]
    /\ last.op = "skip" => last.attrib.extends \notin baseSeen
    /\ (/\ Running /\ todo # <<>>
        /\ Head(todo).kind \in {"feature_enum", "extension_enum"}
        /\ Head(todo).attrib.extends \in baseSeen)
       => Head(todo).attrib.extends \in DOMAIN enum_registry

\* In the only file the feature element precedes the enums block of VkResult,
\* and its declaration extending VkResult was resolved.
C10_Witness ==
    /\ files = 1
    /\ outOfOrder
    /\ last.op = "add_value_from_xml" /\ last.exception = NoException
    /\ HasExtends(last.attrib) /\ last.attrib.extends = "VkResult"
    /\ passes = <<1, 1, 1, 2>>
====
